---- MODULE Spec2Model ----
(***************************************************************************)
(* State-machine model of spherov2.toy.Toy (src/spherov2/toy/__init__.py): *)
(* the session life cycle (__enter__/__exit__), the transmit loop          *)
(* (__process_packet), request/response correlation (_execute,             *)
(* _wait_packet, __new_packet), listener registration and the class        *)
(* method implements; and of the demo script                               *)
(* src/spherov2/test/BOLT_roll_test.py run on such a Toy.                  *)
(*                                                                         *)
(* Python threads are interleaved at every access to a shared attribute of *)
(* the Toy object, so __enter__, __exit__, _execute, _wait_packet and      *)
(* __process_packet are split into one action per such access;             *)
(* _add_listener, _remove_listener and __new_packet are single actions.    *)
(***************************************************************************)
EXTENDS Integers, Sequences, FiniteSets, TLC

\* ------------------------------------------------------------------ bounds
MaxAdapters == 2       \* adapters the adapter factory creates in one run
MaxPayloadLen == 45    \* longest payload packet.build() returns
MaxLifeCalls == 4      \* calls issued in one run of SpecLife
MaxTxCalls == 4        \* calls issued in one run of SpecTx, the open included
MaxWaitCalls == 3      \* calls issued in one run of SpecWait, the open included
MaxTimeoutCalls == 3   \* calls issued in one run of SpecTimeout, the open included
MaxTimeoutPackets == 1 \* inbound packets in one run of SpecTimeout
MaxPackets == 2        \* inbound packets the decoder completes in one run
HandshakeLen == 2      \* entries of the toy model's _handshake table

MaxPaceCalls == 3      \* calls issued in one run of SpecPace, the open included
MaxReopenCalls == 5    \* calls issued in one run of SpecReopen, the open included
MaxReopenPackets == 1  \* inbound packets in one run of SpecReopen
MaxCloseCalls == 4     \* calls issued in one run of SpecClose, the open included
MaxRaceCalls == 2      \* calls issued in one run of SpecRace
MaxRespondCalls == 3   \* calls issued in one run of SpecRespond, the open included
MaxDemoPackets == 4    \* inbound packets in one run of the demo script

\* ------------------------------------------------------- program constants
ChunkSize == 20        \* payload[:20] / payload[20:]
Speed == 80            \* bolt.roll(heading, 80, 0.75): the speed
Duration == 75         \* bolt.roll(heading, 80, 0.75): 0.75 s, in hundredths
Headings == <<0, 90, 180, 270>>      \* for heading in [0, 90, 180, 270]

Callers == {1, 2}                    \* caller threads
Keys == {1, 2}                       \* packet ids / event identifiers
Listeners == {"l1", "l2"}            \* listener callables
Procs == {"procA", "procB"}          \* key[1]: the wrapper bound to a listener
None == <<-1>>                       \* the stop sentinel put on the queue
NoPacket == [id |-> 0, seq |-> 0, err |-> FALSE]
NoResult == [op |-> "", val |-> "", pkt |-> NoPacket]

\* _handshake: (uuid, data) pairs of the toy model, written in order on open
handshake == [i \in 1 .. HandshakeLen |-> [uuid |-> "hs", data |-> <<i>>]]

VARIABLES
    adapter,       \* self.__adapter: 0 is None, else the id of an adapter
    adapters,      \* adapters[a]: the created adapters, [closed, callback]
    thread,        \* self.__thread: 0 is None, else the id of a Thread
    threads,       \* threads[t]: [st, pc, payload, q, err] of each Thread object
    packet_queue,  \* self.__packet_queue: the id of the current SimpleQueue
    queues,        \* queues[q]: the items of SimpleQueue q, oldest first
    waiting,       \* self.__waiting: key -> queue of future ids
    futures,       \* futures[f]: the result of Future f, NoPacket while pending
    listeners,     \* self.__listeners: event id -> (listener -> bound proc)
    workers,       \* the listener threads __new_packet started
    log,           \* what the adapters and the transmit thread did, in order
    enq,           \* [seq, len] of the payloads put on a queue, in order
    seq,           \* sequence number of the last outbound packet built
    delivered,     \* the inbound packets handed to __new_packet, oldest first
    pc,            \* pc[p]: where caller thread p is
    loc,           \* loc[p]: the local variables of caller p's current call
    result,        \* result[p]: how caller p's last call ended
    calls,         \* calls[p]: number of calls caller p has issued
    impl,          \* the last implements query and its answer
    demo           \* the demo script: [pc, toy, i, at, cmds, err]

vars == <<adapter, adapters, thread, threads, packet_queue, queues, waiting,
          futures, listeners, workers, log, enq, seq, delivered, pc, loc,
          result, calls, impl, demo>>

sessionVars == <<adapter, adapters, thread, threads, packet_queue, queues>>
corrVars == <<waiting, futures, listeners, workers, delivered>>

Absent == ""                         \* no entry for a listener in a dict
NoPkt == [id |-> 0, seq |-> 0, len |-> 0]
NoLoc == [op |-> "", i |-> 0, err |-> "", fut |-> 0, jt |-> 0, key |-> 0,
          ce |-> FALSE, pkt |-> NoPkt, l |-> ""]

NoDemo == [pc |-> "find", toy |-> FALSE, i |-> 0, at |-> 0, cmds |-> <<>>,
           err |-> ""]

Min(a, b) == IF a < b THEN a ELSE b

\* packet.build(): the bytes of outbound packet number s with n bytes; the
\* byte at position i is 100 * s + i, so no two payloads share a byte
build(s, n) == [i \in 1 .. n |-> 100 * s + i]

\* the sequence number of the packet a byte belongs to
SeqOf(b) == b \div 100

\* payload[:20]
FirstChunk(payload) == SubSeq(payload, 1, Min(ChunkSize, Len(payload)))

\* payload[19:]: the next chunk starts one byte early
RestChunk_overlap(payload) == SubSeq(payload, ChunkSize, Len(payload))

\* payload[20:]
RestChunk(payload) == SubSeq(payload, ChunkSize + 1, Len(payload))

\* lengths of the payloads the callers send
PayloadLens == {1, ChunkSize, MaxPayloadLen}

\* ------------------------------------------------------------ implements
\* What implements looks at: function objects (a name and an identity), the
\* values a class __dict__ holds (nothing, a plain function, a
\* functools.partialmethod of a function with or without a 'proc' keyword, or
\* anything else), and a class: its own __dict__, what it inherits under each
\* name, and the _require_target it resolves to.
Names == {"roll", "wake"}
Funcs == [name : Names, id : {1, 2}]
NoFunc == [name |-> "", id |-> 0]
Entries ==
    {[kind |-> "none", f |-> NoFunc, proc |-> FALSE],
     [kind |-> "other", f |-> NoFunc, proc |-> FALSE]}
    \cup [kind : {"func"}, f : Funcs, proc : {FALSE}]
    \cup [kind : {"partial"}, f : Funcs, proc : BOOLEAN]
BaseEntries == {e \in Entries : e.kind = "none" \/ (e.kind = "func" /\ e.f.id = 1)}
Classes == [own : [Names -> Entries], base : [Names -> BaseEntries],
            require_target : BOOLEAN]
NoImpl == [cls |-> [own |-> [n \in Names |-> [kind |-> "none", f |-> NoFunc, proc |-> FALSE]],
                    base |-> [n \in Names |-> [kind |-> "none", f |-> NoFunc, proc |-> FALSE]],
                    require_target |-> FALSE],
           method |-> NoFunc, with_target |-> FALSE, result |-> FALSE, asked |-> FALSE]

\* implements with the attribute looked up along the bases (getattr) instead
\* of in the class's own __dict__
implements_getattr(cls, method, with_target) ==
    LET m == IF cls.own[method.name].kind = "none" THEN cls.base[method.name]
                                                    ELSE cls.own[method.name] IN
    IF m.kind = "func" /\ m.f = method
    THEN with_target = cls.require_target
    ELSE IF m.kind = "partial"
         THEN m.f = method /\ ((m.proc /\ ~with_target)
                               \/ with_target = cls.require_target)
         ELSE FALSE

\* lines 117-130
implements(cls, method, with_target) ==
    LET m == cls.own[method.name] IN
    IF m.kind = "func" /\ m.f = method
    THEN with_target = cls.require_target
    ELSE IF m.kind = "partial"
         THEN m.f = method /\ ((m.proc /\ ~with_target)
                               \/ with_target = cls.require_target)
         ELSE FALSE

Init ==
    /\ adapter = 0
    /\ adapters = <<>>
    /\ thread = 0
    /\ threads = <<>>
    /\ packet_queue = 1
    /\ queues = << <<>> >>
    /\ waiting = [k \in Keys |-> <<>>]
    /\ futures = <<>>
    /\ listeners = [k \in Keys |-> [l \in Listeners |-> Absent]]
    /\ workers = <<>>
    /\ log = <<>>
    /\ enq = <<>>
    /\ seq = 0
    /\ delivered = <<>>
    /\ pc = [p \in Callers |-> "idle"]
    /\ loc = [p \in Callers |-> NoLoc]
    /\ result = [p \in Callers |-> NoResult]
    /\ calls = [p \in Callers |-> 0]
    /\ impl = NoImpl
    /\ demo = NoDemo

Event(ev, a, ch, data, t) == [ev |-> ev, ad |-> a, ch |-> ch, data |-> data, t |-> t]

Return(p, op, val, pkt) ==
    /\ pc' = [pc EXCEPT ![p] = "idle"]
    /\ result' = [result EXCEPT ![p] = [op |-> op, val |-> val, pkt |-> pkt]]

Goto(p, label) == pc' = [pc EXCEPT ![p] = label]

\* caller p issues one more call
Begin(p) == calls' = [calls EXCEPT ![p] = @ + 1]

\* calls issued so far
Issued == calls[1] + calls[2]

\* ------------------------------------------------------ __process_packet
\* line 76: while self.__adapter is not None
ProcessPacketWhile(t) ==
    /\ threads[t].st = "alive" /\ threads[t].pc = "while"
    /\ threads' = [threads EXCEPT ![t] =
                     IF adapter = 0 THEN [@ EXCEPT !.st = "dead"]
                                    ELSE [@ EXCEPT !.pc = "get"]]
    /\ UNCHANGED <<adapter, adapters, thread, packet_queue, queues, corrVars,
                   log, enq, seq, pc, loc, result, calls, impl, demo>>

\* line 77: self.__packet_queue is read, then get() blocks on that queue
ProcessPacketGet(t) ==
    /\ threads[t].st = "alive" /\ threads[t].pc = "get"
    /\ threads' = [threads EXCEPT ![t] = [@ EXCEPT !.pc = "take", !.q = packet_queue]]
    /\ UNCHANGED <<adapter, adapters, thread, packet_queue, queues, corrVars,
                   log, enq, seq, pc, loc, result, calls, impl, demo>>

\* lines 77-80: get() returns the oldest item; None ends the loop
ProcessPacketTake(t) ==
    /\ threads[t].st = "alive" /\ threads[t].pc = "take"
    /\ queues[threads[t].q] # <<>>
    /\ LET item == Head(queues[threads[t].q]) IN
       /\ queues' = [queues EXCEPT ![threads[t].q] = Tail(@)]
       /\ threads' = [threads EXCEPT ![t] =
                        IF item = None THEN [@ EXCEPT !.st = "dead"]
                        ELSE [@ EXCEPT !.payload = item,
                                       !.pc = IF item # <<>> THEN "write" ELSE "sleep"]]
    /\ UNCHANGED <<adapter, adapters, thread, packet_queue, corrVars,
                   log, enq, seq, pc, loc, result, calls, impl, demo>>

\* ProcessPacketWrite with the pacing sleep inside `while payload`: a sleep
\* follows every chunk
ProcessPacketWrite_paced(t) ==
    /\ threads[t].st = "alive" /\ threads[t].pc = "write"
    /\ adapter # 0
    /\ log' = log \o <<Event("write", adapter, "send",
                            FirstChunk(threads[t].payload), t),
                      Event("sleep", 0, "", <<>>, t)>>
    /\ threads' = [threads EXCEPT ![t] =
                     [@ EXCEPT !.payload = RestChunk(@),
                               !.pc = IF RestChunk(threads[t].payload) # <<>>
                                      THEN "write" ELSE "sleep"]]
    /\ UNCHANGED <<adapter, adapters, thread, packet_queue, queues, corrVars,
                   enq, seq, pc, loc, result, calls, impl, demo>>

\* lines 80-82: one pass of `while payload`: write payload[:20], keep payload[20:].
\* self.__adapter is read again for each write: when it is None the attribute
\* access raises and the thread dies; a write on an adapter that was already
\* closed is either carried out or raises, as the adapter decides.
ProcessPacketWrite(t) ==
    /\ threads[t].st = "alive" /\ threads[t].pc = "write"
    /\ IF adapter = 0
       THEN /\ threads' = [threads EXCEPT ![t] =
                             [@ EXCEPT !.st = "dead", !.err = "AttributeError"]]
            /\ log' = log
       ELSE \E ok \in (IF adapters[adapter].closed THEN BOOLEAN ELSE {TRUE}) :
            IF ok
            THEN /\ log' = Append(log, Event("write", adapter, "send",
                                             FirstChunk(threads[t].payload), t))
                 /\ threads' = [threads EXCEPT ![t] =
                                  [@ EXCEPT !.payload = RestChunk(@),
                                            !.pc = IF RestChunk(threads[t].payload) # <<>>
                                                   THEN "write" ELSE "sleep"]]
            ELSE /\ threads' = [threads EXCEPT ![t] =
                                  [@ EXCEPT !.st = "dead", !.err = "AdapterError"]]
                 /\ log' = log
    /\ UNCHANGED <<adapter, adapters, thread, packet_queue, queues, corrVars,
                   enq, seq, pc, loc, result, calls, impl, demo>>

\* line 83: time.sleep(self.toy_type.cmd_safe_interval)
ProcessPacketSleep(t) ==
    /\ threads[t].st = "alive" /\ threads[t].pc = "sleep"
    /\ log' = Append(log, Event("sleep", 0, "", <<>>, t))
    /\ threads' = [threads EXCEPT ![t] = [@ EXCEPT !.pc = "while"]]
    /\ UNCHANGED <<adapter, adapters, thread, packet_queue, queues, corrVars,
                   enq, seq, pc, loc, result, calls, impl, demo>>

ProcessPacket(t) ==
    \/ ProcessPacketWhile(t)
    \/ ProcessPacketGet(t)
    \/ ProcessPacketTake(t)
    \/ ProcessPacketWrite(t)
    \/ ProcessPacketSleep(t)

\* --------------------------------------------------- _execute, _wait_packet
\* lines 92-93: a new Future is put on the queue of waiters of `key`
RegisterWaiter(p, op, key, ce) ==
    /\ futures' = Append(futures, NoPacket)
    /\ waiting' = [waiting EXCEPT ![key] = Append(@, Len(futures) + 1)]
    /\ loc' = [loc EXCEPT ![p] = [@ EXCEPT !.op = op, !.fut = Len(futures) + 1,
                                            !.key = key, !.ce = ce]]
    /\ Goto(p, "wait_result")

\* ExecuteCheck without the test of line 86
ExecuteCheck_unguarded(p, k, n) ==
    /\ pc[p] = "idle"
    /\ Begin(p)
    /\ seq' = seq + 1
    /\ loc' = [loc EXCEPT ![p] = [NoLoc EXCEPT !.op = "execute", !.key = k,
                                   !.pkt = [id |-> k, seq |-> seq + 1, len |-> n]]]
    /\ Goto(p, "execute_put") /\ result' = result
    /\ UNCHANGED <<sessionVars, corrVars, log, enq, impl, demo>>

\* lines 85-87: the caller built packet (k, n bytes); _execute checks the adapter
ExecuteCheck(p, k, n) ==
    /\ pc[p] = "idle"
    /\ Begin(p)
    /\ seq' = seq + 1
    /\ loc' = [loc EXCEPT ![p] = [NoLoc EXCEPT !.op = "execute", !.key = k,
                                   !.pkt = [id |-> k, seq |-> seq + 1, len |-> n]]]
    /\ IF adapter = 0
       THEN Return(p, "execute", "NotConnected", NoPacket)
       ELSE Goto(p, "execute_put") /\ result' = result
    /\ UNCHANGED <<sessionVars, corrVars, log, enq, impl, demo>>

\* ExecutePut with the payload put at the head of the queue
ExecutePut_lifo(p) ==
    /\ pc[p] = "execute_put"
    /\ queues' = [queues EXCEPT ![packet_queue] =
                    <<build(loc[p].pkt.seq, loc[p].pkt.len)>> \o @]
    /\ enq' = Append(enq, [seq |-> loc[p].pkt.seq, len |-> loc[p].pkt.len])
    /\ Goto(p, "execute_wait")
    /\ UNCHANGED <<adapter, adapters, thread, threads, packet_queue, corrVars,
                   log, seq, loc, result, calls, impl, demo>>

\* line 88: self.__packet_queue.put(packet.build())
ExecutePut(p) ==
    /\ pc[p] = "execute_put"
    /\ queues' = [queues EXCEPT ![packet_queue] =
                    Append(@, build(loc[p].pkt.seq, loc[p].pkt.len))]
    /\ enq' = Append(enq, [seq |-> loc[p].pkt.seq, len |-> loc[p].pkt.len])
    /\ Goto(p, "execute_wait")
    /\ UNCHANGED <<adapter, adapters, thread, threads, packet_queue, corrVars,
                   log, seq, loc, result, calls, impl, demo>>

\* line 89: self._wait_packet(packet.id), check_error left at False
ExecuteWait(p) ==
    /\ pc[p] = "execute_wait"
    /\ RegisterWaiter(p, "execute", loc[p].pkt.id, FALSE)
    /\ UNCHANGED <<sessionVars, listeners, workers, delivered, log, enq, seq,
                   result, calls, impl, demo>>

\* lines 91-93: _wait_packet(key, check_error=ce) called directly
WaitPacketCall(p, key, ce) ==
    /\ pc[p] = "idle"
    /\ Begin(p)
    /\ RegisterWaiter(p, "wait", key, ce)
    /\ UNCHANGED <<sessionVars, listeners, workers, delivered, log, enq, seq,
                   result, impl, demo>>

\* lines 94-97: future.result(timeout) returns the packet the future was given
WaitPacketResult(p) ==
    /\ pc[p] = "wait_result"
    /\ futures[loc[p].fut] # NoPacket
    /\ IF loc[p].ce /\ futures[loc[p].fut].err
       THEN Return(p, loc[p].op, "ProtocolError", NoPacket)
       ELSE Return(p, loc[p].op, "ok", futures[loc[p].fut])
    /\ UNCHANGED <<sessionVars, corrVars, log, enq, seq, loc, calls, impl, demo>>

\* WaitPacketTimeout as future.result(None): no timeout ever elapses
WaitPacketTimeout_none(p) ==
    /\ FALSE
    /\ UNCHANGED vars

\* line 94: future.result(timeout) raises TimeoutError when the timeout elapses
\* with the future still pending
WaitPacketTimeout(p) ==
    /\ pc[p] = "wait_result"
    /\ futures[loc[p].fut] = NoPacket
    /\ Return(p, loc[p].op, "Timeout", NoPacket)
    /\ UNCHANGED <<sessionVars, corrVars, log, enq, seq, loc, calls, impl, demo>>

\* ------------------------------------------- _add_listener, _remove_listener
\* line 100: self.__listeners[key[0]][listener] = partial(key[1], listener)
AddListener(p, k, proc, l) ==
    /\ pc[p] = "idle"
    /\ Begin(p)
    /\ loc' = [loc EXCEPT ![p] = [NoLoc EXCEPT !.op = "add", !.key = k, !.l = l]]
    /\ listeners' = [listeners EXCEPT ![k] = [@ EXCEPT ![l] = proc]]
    /\ Return(p, "add", "ok", NoPacket)
    /\ UNCHANGED <<sessionVars, waiting, futures, workers, delivered, log, enq,
                   seq, impl, demo>>

\* RemoveListener as self.__listeners[key[0]].pop(listener, None)
RemoveListener_default(p, k, proc, l) ==
    /\ pc[p] = "idle"
    /\ Begin(p)
    /\ loc' = [loc EXCEPT ![p] = [NoLoc EXCEPT !.op = "remove", !.key = k, !.l = l]]
    /\ listeners' = [listeners EXCEPT ![k] = [@ EXCEPT ![l] = Absent]]
    /\ Return(p, "remove", "ok", NoPacket)
    /\ UNCHANGED <<sessionVars, waiting, futures, workers, delivered, log, enq,
                   seq, impl, demo>>

\* line 103: self.__listeners[key[0]].pop(listener): KeyError when absent
RemoveListener(p, k, proc, l) ==
    /\ pc[p] = "idle"
    /\ Begin(p)
    /\ loc' = [loc EXCEPT ![p] = [NoLoc EXCEPT !.op = "remove", !.key = k, !.l = l]]
    /\ IF listeners[k][l] = Absent
       THEN /\ listeners' = listeners
            /\ Return(p, "remove", "NotFound", NoPacket)
       ELSE /\ listeners' = [listeners EXCEPT ![k] = [@ EXCEPT ![l] = Absent]]
            /\ Return(p, "remove", "ok", NoPacket)
    /\ UNCHANGED <<sessionVars, waiting, futures, workers, delivered, log, enq,
                   seq, impl, demo>>

\* ------------------------------------------------------------ __new_packet
\* a sequence holding the members of the finite set S, each once
SeqOfSet(S) ==
    CHOOSE s \in [1 .. Cardinality(S) -> S] : \A i, j \in DOMAIN s : i # j => s[i] # s[j]

\* Spawned with the listeners of every event id started, not those of packet.id
Spawned_anykey(packet) ==
    LET ls == {kl \in Keys \X Listeners : listeners[kl[1]][kl[2]] # Absent}
        order == SeqOfSet(ls)
    IN [i \in 1 .. Cardinality(ls) |->
          [l |-> order[i][2], proc |-> listeners[order[i][1]][order[i][2]],
           pkt |-> packet, done |-> FALSE]]

\* the listener threads line 114 starts for `packet`
Spawned(packet) ==
    LET ls == {l \in Listeners : listeners[packet.id][l] # Absent}
        order == SeqOfSet(ls)
    IN [i \in 1 .. Cardinality(ls) |->
          [l |-> order[i], proc |-> listeners[packet.id][order[i]],
           pkt |-> packet, done |-> FALSE]]

\* Fulfil with the first queued waiter alone given the packet
Fulfil_first(packet) ==
    [f \in DOMAIN futures |->
       IF waiting[packet.id] # <<>> /\ waiting[packet.id][1] = f
       THEN packet ELSE futures[f]]

\* lines 111-112: every queued waiter of the key gets the packet
Fulfil(packet) ==
    [f \in DOMAIN futures |->
       IF \E i \in DOMAIN waiting[packet.id] : waiting[packet.id][i] = f
       THEN packet ELSE futures[f]]

\* lines 105-114: the adapter hands inbound data to the decoder through the
\* callback __enter__ registered; the decoder completes a packet with id k
NewPacket(k, err) ==
    /\ \E a \in DOMAIN adapters : adapters[a].callback /\ ~adapters[a].closed
    /\ LET packet == [id |-> k, seq |-> Len(delivered) + 1, err |-> err] IN
       /\ delivered' = Append(delivered, packet)
       /\ futures' = Fulfil(packet)
       /\ waiting' = [waiting EXCEPT ![k] = <<>>]
       /\ workers' = workers \o Spawned(packet)
    /\ UNCHANGED <<sessionVars, listeners, log, enq, seq, pc, loc, result,
                   calls, impl, demo>>

\* a listener thread runs f(packet) to its end
WorkerFinish(w) ==
    /\ ~workers[w].done
    /\ workers' = [workers EXCEPT ![w] = [@ EXCEPT !.done = TRUE]]
    /\ UNCHANGED <<sessionVars, waiting, futures, listeners, delivered, log,
                   enq, seq, pc, loc, result, calls, impl, demo>>

\* ---------------------------------------------------------------- __exit__
\* line 68: self.__adapter.close(); with self.__adapter None the attribute
\* access raises AttributeError out of __exit__
ExitClose(p) ==
    IF adapter = 0
    THEN /\ Return(p, IF loc'[p].err = "" THEN "exit" ELSE "enter",
                   "AttributeError", NoPacket)
         /\ UNCHANGED <<adapters, log>>
    ELSE /\ adapters' = [adapters EXCEPT ![adapter] = [@ EXCEPT !.closed = TRUE]]
         /\ log' = Append(log, Event("close", adapter, "", <<>>, 0))
         /\ Goto(p, "exit_none")
         /\ result' = result

\* line 67: __exit__ called by the caller
ExitCall(p) ==
    /\ pc[p] = "idle"
    /\ Begin(p)
    /\ loc' = [loc EXCEPT ![p] = [NoLoc EXCEPT !.op = "exit"]]
    /\ ExitClose(p)
    /\ UNCHANGED <<adapter, thread, threads, packet_queue, queues, corrVars,
                   enq, seq, impl, demo>>

\* line 69: self.__adapter = None
ExitNone(p) ==
    /\ pc[p] = "exit_none"
    /\ adapter' = 0
    /\ Goto(p, "exit_alive")
    /\ UNCHANGED <<adapters, thread, threads, packet_queue, queues, corrVars,
                   log, enq, seq, loc, result, calls, impl, demo>>

\* line 70: if self.__thread.is_alive()
ExitAlive(p) ==
    /\ pc[p] = "exit_alive"
    /\ IF thread = 0
       THEN Return(p, IF loc[p].err = "" THEN "exit" ELSE "enter",
                   "AttributeError", NoPacket)
       ELSE /\ Goto(p, IF threads[thread].st = "alive" THEN "exit_put" ELSE "exit_queue")
            /\ result' = result
    /\ UNCHANGED <<sessionVars, corrVars, log, enq, seq, loc, calls, impl, demo>>

\* ExitPut without the put: join is called with no sentinel on the queue
ExitPut_nosentinel(p) ==
    /\ pc[p] = "exit_put"
    /\ Goto(p, "exit_join")
    /\ UNCHANGED <<adapter, adapters, thread, threads, packet_queue, queues,
                   corrVars, log, enq, seq, loc, result, calls, impl, demo>>

\* line 71: self.__packet_queue.put(None)
ExitPut(p) ==
    /\ pc[p] = "exit_put"
    /\ queues' = [queues EXCEPT ![packet_queue] = Append(@, None)]
    /\ Goto(p, "exit_join")
    /\ UNCHANGED <<adapter, adapters, thread, threads, packet_queue, corrVars,
                   log, enq, seq, loc, result, calls, impl, demo>>

\* line 72: self.__thread is read and join() called on it; joining a thread
\* that was never started raises RuntimeError
ExitJoin(p) ==
    /\ pc[p] = "exit_join"
    /\ IF threads[thread].st = "new"
       THEN /\ Return(p, IF loc[p].err = "" THEN "exit" ELSE "enter",
                      "RuntimeError", NoPacket)
            /\ loc' = loc
       ELSE /\ loc' = [loc EXCEPT ![p] = [@ EXCEPT !.jt = thread]]
            /\ Goto(p, "exit_joined")
            /\ result' = result
    /\ UNCHANGED <<sessionVars, corrVars, log, enq, seq, calls, impl, demo>>

\* line 72: join() returns once the thread has ended
ExitJoined(p) ==
    /\ pc[p] = "exit_joined"
    /\ threads[loc[p].jt].st = "dead"
    /\ Goto(p, "exit_queue")
    /\ UNCHANGED <<sessionVars, corrVars, log, enq, seq, loc, result, calls, impl, demo>>

\* ExitQueue with every per-session attribute set up again as in __init__:
\* the waiters and the listeners are dropped with the queue
ExitQueue_reset(p) ==
    /\ pc[p] = "exit_queue"
    /\ queues' = Append(queues, <<>>)
    /\ packet_queue' = Len(queues) + 1
    /\ waiting' = [k \in Keys |-> <<>>]
    /\ listeners' = [k \in Keys |-> [l \in Listeners |-> Absent]]
    /\ IF loc[p].err = ""
       THEN Return(p, "exit", "ok", NoPacket)
       ELSE Return(p, "enter", loc[p].err, NoPacket)
    /\ UNCHANGED <<adapter, adapters, thread, threads, futures, workers,
                   delivered, log, enq, seq, loc, calls, impl, demo>>

\* line 73: self.__packet_queue = SimpleQueue(); then __exit__ returns, and
\* when __enter__ called it (line 63) line 64 re-raises the original error
ExitQueue(p) ==
    /\ pc[p] = "exit_queue"
    /\ queues' = Append(queues, <<>>)
    /\ packet_queue' = Len(queues) + 1
    /\ IF loc[p].err = ""
       THEN Return(p, "exit", "ok", NoPacket)
       ELSE Return(p, "enter", loc[p].err, NoPacket)
    /\ UNCHANGED <<adapter, adapters, thread, threads, corrVars, log, enq, seq,
                   loc, calls, impl, demo>>

\* --------------------------------------------------------------- __enter__
\* lines 62-63: an error inside the try block: __exit__ runs before the
\* error is re-raised
Except(p, err) ==
    /\ log' = Append(log, Event("raise", adapter, err, <<>>, 0))
    /\ loc' = [loc EXCEPT ![p] = [@ EXCEPT !.err = err]]
    /\ Goto(p, "enter_except")
    /\ result' = result

\* EnterCheck without the test of line 53
EnterCheck_unguarded(p) ==
    /\ pc[p] = "idle"
    /\ Len(adapters) < MaxAdapters
    /\ Begin(p)
    /\ loc' = [loc EXCEPT ![p] = [NoLoc EXCEPT !.op = "enter"]]
    /\ Goto(p, "enter_adapter") /\ result' = result
    /\ UNCHANGED <<sessionVars, corrVars, log, enq, seq, impl, demo>>

\* lines 53-54
EnterCheck(p) ==
    /\ pc[p] = "idle"
    /\ adapter # 0 \/ Len(adapters) < MaxAdapters
    /\ Begin(p)
    /\ loc' = [loc EXCEPT ![p] = [NoLoc EXCEPT !.op = "enter"]]
    /\ IF adapter # 0
       THEN Return(p, "enter", "AlreadyOpen", NoPacket)
       ELSE Goto(p, "enter_adapter") /\ result' = result
    /\ UNCHANGED <<sessionVars, corrVars, log, enq, seq, impl, demo>>

\* line 55: self.__adapter = self.__adapter_cls(self.address); the factory
\* connects to the toy and may fail, outside the try block
EnterAdapter(p) ==
    /\ pc[p] = "enter_adapter"
    /\ Len(adapters) < MaxAdapters
    /\ \E ok \in BOOLEAN :
       IF ok
       THEN /\ adapters' = Append(adapters, [closed |-> FALSE, callback |-> FALSE])
            /\ adapter' = Len(adapters) + 1
            /\ log' = log
            /\ Goto(p, "enter_thread")
            /\ result' = result
       ELSE /\ Return(p, "enter", "ConnectError", NoPacket)
            /\ log' = Append(log, Event("raise", 0, "ConnectError", <<>>, 0))
            /\ UNCHANGED <<adapter, adapters>>
    /\ UNCHANGED <<thread, threads, packet_queue, queues, corrVars, enq,
                   seq, loc, calls, impl, demo>>

\* EnterThread with the thread started where it is created, before the
\* handshake
EnterThread_started(p) ==
    /\ pc[p] = "enter_thread"
    /\ threads' = Append(threads, [st |-> "alive", pc |-> "while", payload |-> <<>>,
                                   q |-> 0, err |-> ""])
    /\ thread' = Len(threads) + 1
    /\ loc' = [loc EXCEPT ![p] = [@ EXCEPT !.i = 1]]
    /\ Goto(p, IF Len(handshake) > 0 THEN "enter_handshake" ELSE "enter_callback")
    /\ UNCHANGED <<adapter, adapters, packet_queue, queues, corrVars, log, enq,
                   seq, result, calls, impl, demo>>

\* line 56: self.__thread = threading.Thread(target=self.__process_packet)
EnterThread(p) ==
    /\ pc[p] = "enter_thread"
    /\ threads' = Append(threads, [st |-> "new", pc |-> "while", payload |-> <<>>,
                                   q |-> 0, err |-> ""])
    /\ thread' = Len(threads) + 1
    /\ loc' = [loc EXCEPT ![p] = [@ EXCEPT !.i = 1]]
    /\ Goto(p, IF Len(handshake) > 0 THEN "enter_handshake" ELSE "enter_callback")
    /\ UNCHANGED <<adapter, adapters, packet_queue, queues, corrVars, log, enq,
                   seq, result, calls, impl, demo>>

\* lines 58-59: one handshake write; the adapter may fail it
EnterHandshake(p) ==
    /\ pc[p] = "enter_handshake"
    /\ IF adapter = 0
       THEN Except(p, "AttributeError")
       ELSE \E ok \in BOOLEAN :
            IF ok
            THEN /\ log' = Append(log, Event("write", adapter, handshake[loc[p].i].uuid,
                                             handshake[loc[p].i].data, 0))
                 /\ loc' = [loc EXCEPT ![p] = [@ EXCEPT !.i = @ + 1]]
                 /\ Goto(p, IF loc[p].i < Len(handshake) THEN "enter_handshake"
                                                          ELSE "enter_callback")
                 /\ result' = result
            ELSE Except(p, "HandshakeError")
    /\ UNCHANGED <<sessionVars, corrVars, enq, seq, calls, impl, demo>>

\* line 60: self.__adapter.set_callback(self._response_uuid, self.__api_read)
EnterCallback(p) ==
    /\ pc[p] = "enter_callback"
    /\ IF adapter = 0
       THEN Except(p, "AttributeError") /\ adapters' = adapters
       ELSE \E ok \in BOOLEAN :
            IF ok
            THEN /\ adapters' = [adapters EXCEPT ![adapter] = [@ EXCEPT !.callback = TRUE]]
                 /\ log' = Append(log, Event("set_callback", adapter, "response", <<>>, 0))
                 /\ Goto(p, "enter_start")
                 /\ UNCHANGED <<loc, result>>
            ELSE Except(p, "CallbackError") /\ adapters' = adapters
    /\ UNCHANGED <<adapter, thread, threads, packet_queue, queues, corrVars, enq,
                   seq, calls, impl, demo>>

\* lines 61, 65: self.__thread.start(); starting may fail, and starting a
\* thread a second time raises RuntimeError
EnterStart(p) ==
    /\ pc[p] = "enter_start"
    /\ IF threads[thread].st # "new"
       THEN Except(p, "RuntimeError") /\ threads' = threads
       ELSE \E ok \in BOOLEAN :
            IF ok
            THEN /\ threads' = [threads EXCEPT ![thread] = [@ EXCEPT !.st = "alive"]]
                 /\ Return(p, "enter", "ok", NoPacket)
                 /\ UNCHANGED <<loc, log>>
            ELSE Except(p, "StartError") /\ threads' = threads
    /\ UNCHANGED <<adapter, adapters, thread, packet_queue, queues, corrVars,
                   enq, seq, calls, impl, demo>>

\* EnterExcept re-raising without the call of __exit__ of line 63
EnterExcept_noexit(p) ==
    /\ pc[p] = "enter_except"
    /\ loc' = loc
    /\ Return(p, "enter", loc[p].err, NoPacket)
    /\ UNCHANGED <<sessionVars, corrVars, log, enq, seq, calls, impl, demo>>

\* line 63: self.__exit__(None, None, None) in the except block
EnterExcept(p) ==
    /\ pc[p] = "enter_except"
    /\ loc' = loc
    /\ ExitClose(p)
    /\ UNCHANGED <<adapter, thread, threads, packet_queue, queues, corrVars,
                   enq, seq, calls, impl, demo>>

\* ------------------------------------------------------------- implements
ImplementsCall(cls, method, with_target) ==
    /\ impl' = [cls |-> cls, method |-> method, with_target |-> with_target,
                result |-> implements(cls, method, with_target), asked |-> TRUE]
    /\ UNCHANGED <<sessionVars, corrVars, log, enq, seq, pc, loc, result, calls, demo>>

\* ------------------------------------------------------------ demo script
\* src/spherov2/test/BOLT_roll_test.py, run by caller thread 1.  The script
\* is one thread: after handing a call to the facade it waits (demo.at is
\* the number of calls caller 1 had issued before) until the call returned.
Await(label) == [demo EXCEPT !.pc = label, !.at = calls[1]]

\* the call the script is waiting for has not been issued yet
DemoCalling(label) == demo.pc = label /\ calls[1] = demo.at

\* the call the script is waiting for has returned
DemoReturned(label) == demo.pc = label /\ calls[1] = demo.at + 1 /\ pc[1] = "idle"

DemoOnly == UNCHANGED <<sessionVars, corrVars, log, enq, seq, pc, loc, result,
                        calls, impl>>

\* lines 8-10: toy = scanner.find_BOLT(); if toy is not None.  The finder
\* returns a toy or None; with None the script ends.
DemoFind ==
    /\ demo.pc = "find"
    /\ \E toy \in BOOLEAN :
         demo' = IF toy THEN [Await("with") EXCEPT !.toy = TRUE]
                        ELSE [demo EXCEPT !.pc = "done"]
    /\ DemoOnly

\* line 12: with SpheroEduAPI(toy) as bolt: the facade's __enter__ opens the
\* Toy it wraps
DemoWith == DemoCalling("with") /\ EnterCheck(1)

\* line 12: an exception of __enter__ ends the script, the body and __exit__
\* of the with statement are not run; otherwise the for loop starts
DemoEntered ==
    /\ DemoReturned("with")
    /\ demo' = IF result[1].val = "ok"
               THEN [demo EXCEPT !.pc = "for", !.i = 1]
               ELSE [demo EXCEPT !.pc = "done", !.err = result[1].val]
    /\ DemoOnly

\* lines 13-14: for heading in [0, 90, 180, 270]: bolt.roll(heading, 80, 0.75);
\* after the last heading the with block is left
DemoFor ==
    /\ demo.pc = "for"
    /\ demo' = IF demo.i <= Len(Headings)
               THEN [Await("roll") EXCEPT
                        !.cmds = Append(@, <<Headings[demo.i], Speed, Duration>>)]
               ELSE Await("exit")
    /\ DemoOnly

\* line 14: the facade turns roll into a Toy._execute call
DemoRoll == DemoCalling("roll") /\ ExecuteCheck(1, 1, 1)

\* DemoRolled for a facade used without `with`: an exception of roll ends the
\* script at once and nothing closes the session
DemoRolled_unscoped ==
    /\ DemoReturned("roll")
    /\ demo' = IF result[1].val = "ok"
               THEN [demo EXCEPT !.pc = "for", !.i = @ + 1]
               ELSE [demo EXCEPT !.pc = "done", !.err = result[1].val]
    /\ DemoOnly

\* line 14: roll returned: the next heading; roll raised: the with block is
\* left with the exception, the remaining headings are skipped
DemoRolled ==
    /\ DemoReturned("roll")
    /\ demo' = IF result[1].val = "ok"
               THEN [demo EXCEPT !.pc = "for", !.i = @ + 1]
               ELSE [Await("exit") EXCEPT !.err = result[1].val]
    /\ DemoOnly

\* line 12: leaving the with block, normally or by an exception, calls the
\* facade's __exit__, which closes the Toy
DemoExit == DemoCalling("exit") /\ ExitCall(1)

\* line 12: __exit__ returned; the script ends (with the exception, if any)
DemoExited ==
    /\ DemoReturned("exit")
    /\ demo' = [demo EXCEPT !.pc = "done"]
    /\ DemoOnly

\* ------------------------------------------------------------ specifications
\* SpecLife: caller 1 opens and closes the session, in any order and with
\* any step of the open failing; caller 2 calls _execute meanwhile.
Enter(p) ==
    \/ EnterAdapter(p)
    \/ EnterThread(p)
    \/ EnterHandshake(p)
    \/ EnterCallback(p)
    \/ EnterStart(p)
    \/ EnterExcept(p)

Exit(p) ==
    \/ ExitNone(p)
    \/ ExitAlive(p)
    \/ ExitPut(p)
    \/ ExitJoin(p)
    \/ ExitJoined(p)
    \/ ExitQueue(p)

NextLife ==
    \/ Issued < MaxLifeCalls /\ EnterCheck(1)
    \/ Issued < MaxLifeCalls /\ ExitCall(1)
    \/ Enter(1)
    \/ Exit(1)
    \/ Issued < MaxLifeCalls /\ \E n \in PayloadLens : ExecuteCheck(2, 1, n)
    \/ ExecutePut(2)
    \/ ExecuteWait(2)
    \/ WaitPacketTimeout(2)
    \/ \E t \in DOMAIN threads : ProcessPacket(t)

SpecLife == Init /\ [][NextLife]_vars

\* The session as a successful __enter__ by caller 1 leaves it: every
\* handshake write made, the callback registered, the transmit thread started.
InitOpen ==
    /\ adapter = 1
    /\ adapters = <<[closed |-> FALSE, callback |-> TRUE]>>
    /\ thread = 1
    /\ threads = <<[st |-> "alive", pc |-> "while", payload |-> <<>>, q |-> 0, err |-> ""]>>
    /\ packet_queue = 1
    /\ queues = << <<>> >>
    /\ waiting = [k \in Keys |-> <<>>]
    /\ futures = <<>>
    /\ listeners = [k \in Keys |-> [l \in Listeners |-> Absent]]
    /\ workers = <<>>
    /\ log = [i \in 1 .. Len(handshake) + 1 |->
                IF i <= Len(handshake)
                THEN Event("write", 1, handshake[i].uuid, handshake[i].data, 0)
                ELSE Event("set_callback", 1, "response", <<>>, 0)]
    /\ enq = <<>>
    /\ seq = 0
    /\ delivered = <<>>
    /\ pc = [p \in Callers |-> "idle"]
    /\ loc = [p \in Callers |-> IF p = 1 THEN [NoLoc EXCEPT !.op = "enter",
                                                            !.i = Len(handshake) + 1]
                                         ELSE NoLoc]
    /\ result = [p \in Callers |-> IF p = 1 THEN [op |-> "enter", val |-> "ok", pkt |-> NoPacket]
                                            ELSE NoResult]
    /\ calls = [p \in Callers |-> IF p = 1 THEN 1 ELSE 0]
    /\ impl = NoImpl
    /\ demo = NoDemo

\* SpecTx: on an open session both callers call _execute concurrently while
\* the transmit thread runs and responses arrive.
NextTx ==
    \/ Issued < MaxTxCalls /\ \E p \in Callers, n \in PayloadLens : ExecuteCheck(p, p, n)
    \/ \E p \in Callers : ExecutePut(p)
    \/ \E p \in Callers : ExecuteWait(p)
    \/ \E p \in Callers : WaitPacketTimeout(p)
    \/ \E t \in DOMAIN threads : ProcessPacketWhile(t)
    \/ \E t \in DOMAIN threads : ProcessPacketGet(t)
    \/ \E t \in DOMAIN threads : ProcessPacketTake(t)
    \/ \E t \in DOMAIN threads : ProcessPacketWrite(t)
    \/ \E t \in DOMAIN threads : ProcessPacketSleep(t)

SpecTx == InitOpen /\ [][NextTx]_vars

\* ------------------------------------------------------------------ claims
\* caller p issues a call of `op` in this step
Calls(p, op) == calls'[p] # calls[p] /\ loc'[p].op = op

\* caller p's last call was `op` and has ended with `val`
Ended(p, op, val) ==
    pc[p] = "idle" /\ loc[p].op = op /\ result[p].op = op /\ result[p].val = val

\* the errors the log records as raised, oldest first
Raised == SelectSeq(log, LAMBDA e : e.ev = "raise")

\* C1: an open issued while the session is open fails with AlreadyOpen and
\* leaves the adapter, the transmit thread and the outbound queue as they
\* were; a close that succeeds leaves the session not open, an open issued
\* on a session that is not open is not rejected, and an open that returns
\* normally leaves an open session whose transmit thread is running.
C1_OpenWhileOpen ==
    [][\A p \in Callers :
         /\ (Calls(p, "enter") /\ adapter # 0) =>
               /\ pc'[p] = "idle"
               /\ result'[p] = [op |-> "enter", val |-> "AlreadyOpen", pkt |-> NoPacket]
               /\ UNCHANGED sessionVars
         /\ (Calls(p, "enter") /\ adapter = 0) => pc'[p] = "enter_adapter"
         /\ (pc[p] = "exit_queue" /\ pc'[p] = "idle" /\ result'[p].val = "ok") => adapter' = 0
         /\ (pc[p] = "enter_start" /\ pc'[p] = "idle") =>
               /\ result'[p] = [op |-> "enter", val |-> "ok", pkt |-> NoPacket]
               /\ adapter' # 0
               /\ ~adapters'[adapter'].closed
               /\ thread' # 0
               /\ threads'[thread'].st = "alive"
      ]_vars

\* C1 witness: after open, close and a second successful open, a further
\* open was rejected and the second session is still open and running.
C1_Witness ==
    /\ Ended(1, "enter", "AlreadyOpen")
    /\ adapter = 2 /\ adapters[1].closed /\ ~adapters[2].closed
    /\ threads[thread].st = "alive"

\* C2: _execute called while no session is open fails with NotConnected,
\* puts nothing on the outbound queue and adds no waiter.
C2_ExecuteNotConnected ==
    [][\A p \in Callers :
         (Calls(p, "execute") /\ adapter = 0) =>
            /\ pc'[p] = "idle"
            /\ result'[p] = [op |-> "execute", val |-> "NotConnected", pkt |-> NoPacket]
            /\ UNCHANGED <<queues, packet_queue, enq, waiting, futures>>
      ]_vars

\* C2 witness: _execute failed with NotConnected on a session that had been
\* opened and closed again.
C2_Witness ==
    /\ Ended(2, "execute", "NotConnected")
    /\ adapter = 0 /\ Len(adapters) = 1 /\ adapters[1].closed
    /\ enq = <<>> /\ futures = <<>>

\* C10: when an open has failed at adapter creation, a handshake write, the
\* callback registration or the thread start, the error reported is the one
\* that step raised, no adapter reference is held, every adapter created is
\* closed, no transmit thread is running, and (no adapter reference being
\* held) the next open passes the AlreadyOpen test.
C10_FailedOpenUnwinds ==
    \A p \in Callers :
        (pc[p] = "idle" /\ loc[p].op = "enter" /\ result[p].op = "enter"
           /\ result[p].val \notin {"ok", "AlreadyOpen"}) =>
            /\ Raised # <<>>
            /\ result[p].val = Raised[Len(Raised)].ch
            /\ result[p].val \in {"ConnectError", "HandshakeError", "CallbackError", "StartError"}
            /\ adapter = 0
            /\ \A a \in DOMAIN adapters : adapters[a].closed
            /\ \A t \in DOMAIN threads : threads[t].st # "alive"

\* C10 witness: a reopen failed at the thread start after the whole handshake
\* and the callback registration; both adapters are closed.
C10_Witness ==
    /\ Ended(1, "enter", "StartError")
    /\ Len(adapters) = 2 /\ adapters[2].callback /\ adapters[2].closed
    /\ threads[2].st = "new"

\* the writes to the send channel, oldest first
SendWrites == SelectSeq(log, LAMBDA e : e.ev = "write" /\ e.ch = "send")

\* the writes to the send channel that carry bytes of payload number s
WritesOf(s) == SelectSeq(SendWrites, LAMBDA e : SeqOf(e.data[1]) = s)

RECURSIVE Concat(_)
Concat(ws) == IF ws = <<>> THEN <<>> ELSE Head(ws).data \o Concat(Tail(ws))

\* payload number s has left its queue and the `while payload` loop that
\* took it has run to its end
Flushed(s) ==
    /\ \A q \in DOMAIN queues : \A i \in DOMAIN queues[q] :
           queues[q][i] = None \/ SeqOf(queues[q][i][1]) # s
    /\ \A t \in DOMAIN threads :
           threads[t].payload = <<>> \/ SeqOf(threads[t].payload[1]) # s

\* C3: every payload of n bytes the transmit loop has taken and flushed went
\* out in exactly ceil(n/20) writes to the send channel, each of at most 20
\* bytes, all but the last of exactly 20, which concatenated in order are the
\* payload.
C3_Chunking ==
    \A i \in DOMAIN enq :
        Flushed(enq[i].seq) =>
            LET ws == WritesOf(enq[i].seq) IN
            /\ Len(ws) = (enq[i].len + ChunkSize - 1) \div ChunkSize
            /\ \A j \in DOMAIN ws :
                   /\ Len(ws[j].data) <= ChunkSize
                   /\ j < Len(ws) => Len(ws[j].data) = ChunkSize
            /\ Concat(ws) = build(enq[i].seq, enq[i].len)

\* C3 witness: a payload of the greatest length (45 bytes) went out as three
\* writes of 20, 20 and 5 bytes.
C3_Witness ==
    \E i \in DOMAIN enq :
        /\ enq[i].len = MaxPayloadLen
        /\ Flushed(enq[i].seq)
        /\ LET ws == WritesOf(enq[i].seq) IN
           /\ Len(ws) = 3
           /\ Len(ws[1].data) = ChunkSize
           /\ Len(ws[2].data) = ChunkSize
           /\ Len(ws[3].data) = MaxPayloadLen - 2 * ChunkSize

\* the payload numbers of the writes to the send channel, a number once for
\* each run of consecutive writes that carry it
RECURSIVE Runs(_)
Runs(ws) ==
    IF ws = <<>> THEN <<>>
    ELSE IF Len(ws) > 1 /\ SeqOf(ws[1].data[1]) = SeqOf(ws[2].data[1])
         THEN Runs(Tail(ws))
         ELSE <<SeqOf(ws[1].data[1])>> \o Runs(Tail(ws))

\* C4: in one open session the payloads go out in the order they were put
\* on the queue, whatever the interleaving of the callers, and the writes of
\* one payload are consecutive: the runs of writes are, in order, the first
\* payloads enqueued, each payload forming one run.
C4_OrderAndContiguity ==
    LET runs == Runs(SendWrites) IN
    /\ Len(runs) <= Len(enq)
    /\ \A i \in DOMAIN runs : runs[i] = enq[i].seq

\* C4 witness: the caller that built its packet second enqueued first, both
\* payloads take several writes, and both have been written completely.
C4_Witness ==
    /\ Len(enq) >= 2
    /\ enq[1].seq = 2 /\ enq[2].seq = 1
    /\ enq[1].len > ChunkSize /\ enq[2].len > ChunkSize
    /\ Flushed(1) /\ Flushed(2)
    /\ Len(SendWrites) = 6

\* SpecWait: on an open session both callers wait for keys and caller 1 adds
\* and removes listeners while inbound packets are dispatched and listener
\* threads run.
NextWait ==
    \/ Issued < MaxWaitCalls /\ \E p \in Callers, k \in Keys : WaitPacketCall(p, k, FALSE)
    \/ Issued < MaxWaitCalls /\ \E k \in Keys, proc \in Procs, l \in Listeners :
           AddListener(1, k, proc, l)
    \/ Issued < MaxWaitCalls /\ \E k \in Keys, proc \in Procs, l \in Listeners :
           RemoveListener(1, k, proc, l)
    \/ \E p \in Callers : WaitPacketResult(p)
    \/ \E p \in Callers : WaitPacketTimeout(p)
    \/ Len(delivered) < MaxPackets /\ \E k \in Keys : NewPacket(k, FALSE)
    \/ \E w \in DOMAIN workers : WorkerFinish(w)

SpecWait == InitOpen /\ [][NextWait]_vars

\* this step is a run of __new_packet
Dispatches == Len(delivered') = Len(delivered) + 1

\* the packet this step dispatches
Dispatched == delivered'[Len(delivered')]

\* future f is queued under key k
Queued(k, f) == \E i \in DOMAIN waiting[k] : waiting[k][i] = f

\* the listener threads this step starts
Started == SubSeq(workers', Len(workers) + 1, Len(workers'))

\* C5: dispatching one packet gives that packet to every waiter queued under
\* the packet's id, however many callers queued one, leaves that key's queue
\* of waiters empty, and leaves the waiters of every other key queued and
\* unfulfilled.
C5_Broadcast ==
    [][Dispatches =>
         /\ \A f \in DOMAIN futures :
                futures'[f] = IF Queued(Dispatched.id, f) THEN Dispatched ELSE futures[f]
         /\ waiting'[Dispatched.id] = <<>>
         /\ \A k \in Keys \ {Dispatched.id} : waiting'[k] = waiting[k]
      ]_vars

\* C5 witness: both callers were waiting for key 1, a third party's packet
\* with id 1 was dispatched once, and each call returned that packet.
C5_Witness ==
    /\ Len(delivered) = 1 /\ delivered[1].id = 1
    /\ Ended(1, "wait", "ok") /\ Ended(2, "wait", "ok")
    /\ result[1].pkt = delivered[1] /\ result[2].pkt = delivered[1]
    /\ loc[1].fut # loc[2].fut
    /\ waiting[1] = <<>>

\* C7: dispatching a packet with id K starts, for every listener registered
\* under K, exactly one thread, which runs the wrapper stored for the listener
\* on that packet; the dispatch ends with these threads still running; no
\* thread is started for a listener that is not registered under K, and the
\* threads started earlier are not touched.
C7_ListenerFanOut ==
    [][Dispatches =>
         /\ \A l \in Listeners :
                Cardinality({i \in DOMAIN Started : Started[i].l = l})
                    = IF listeners[Dispatched.id][l] # Absent THEN 1 ELSE 0
         /\ \A i \in DOMAIN Started :
                /\ Started[i].pkt = Dispatched
                /\ Started[i].proc = listeners[Dispatched.id][Started[i].l]
                /\ ~Started[i].done
         /\ SubSeq(workers', 1, Len(workers)) = workers
      ]_vars

\* C7 witness: l1 is registered under key 1 and l2 under key 2 only; a packet
\* with id 1 was dispatched, and the one thread started runs l1 and has not
\* finished.
C7_Witness ==
    /\ listeners[1]["l1"] # Absent /\ listeners[1]["l2"] = Absent
    /\ listeners[2]["l2"] # Absent
    /\ Len(delivered) = 1 /\ delivered[1].id = 1
    /\ Len(workers) = 1 /\ workers[1].l = "l1" /\ workers[1].pkt = delivered[1]
    /\ ~workers[1].done

\* C8: _remove_listener of a callback that is not registered under the key's
\* event id fails with NotFound and leaves the listener map as it was; of a
\* registered callback it succeeds and removes that one entry; and a dispatch
\* starts no thread for a callback that is not registered under the packet's
\* id at that moment, so none for a removed callback.
C8_RemoveListener ==
    [][/\ \A p \in Callers :
              Calls(p, "remove") =>
                  /\ pc'[p] = "idle"
                  /\ IF listeners[loc'[p].key][loc'[p].l] = Absent
                     THEN /\ result'[p] = [op |-> "remove", val |-> "NotFound", pkt |-> NoPacket]
                          /\ listeners' = listeners
                     ELSE /\ result'[p] = [op |-> "remove", val |-> "ok", pkt |-> NoPacket]
                          /\ listeners' = [listeners EXCEPT ![loc'[p].key] =
                                              [@ EXCEPT ![loc'[p].l] = Absent]]
       /\ Dispatches =>
              \A i \in DOMAIN Started : listeners[Dispatched.id][Started[i].l] # Absent
      ]_vars

\* C8 witness: l1 was added under key 1, a first packet with id 1 started a
\* thread for it, l1 was removed with success, and the second packet with id
\* 1, dispatched after the removal, started none.
C8_Witness ==
    /\ Ended(1, "remove", "ok") /\ loc[1].key = 1 /\ loc[1].l = "l1"
    /\ calls[1] = 3 /\ calls[2] = 0
    /\ Len(delivered) = 2 /\ delivered[1].id = 1 /\ delivered[2].id = 1
    /\ Len(workers) = 1 /\ workers[1].l = "l1" /\ workers[1].pkt = delivered[1]

\* SpecImpl: one query of implements, on any class, method and flag.
NextImpl ==
    /\ ~impl.asked
    /\ \E cls \in Classes, method \in Funcs, with_target \in BOOLEAN :
           ImplementsCall(cls, method, with_target)

SpecImpl == Init /\ [][NextImpl]_vars

\* SpecTimeout: on an open session caller 2 calls _execute (key 1, a payload
\* of one byte) and _wait_packet (any key, check_error set) while caller 1
\* closes the session, packets with and without an error arrive and the
\* transmit thread runs. A thread that can take a step takes it, and a timeout that runs
\* elapses, so each step of a call is weakly fair.
NextTimeout ==
    \/ Issued < MaxTimeoutCalls /\ ExecuteCheck(2, 1, 1)
    \/ Issued < MaxTimeoutCalls /\ \E k \in Keys : WaitPacketCall(2, k, TRUE)
    \/ ExecutePut(2)
    \/ ExecuteWait(2)
    \/ WaitPacketResult(2)
    \/ WaitPacketTimeout(2)
    \/ Issued < MaxTimeoutCalls /\ ExitCall(1)
    \/ Exit(1)
    \/ Len(delivered) < MaxTimeoutPackets /\ \E k \in Keys, err \in BOOLEAN : NewPacket(k, err)
    \/ \E t \in DOMAIN threads : ProcessPacket(t)

SpecTimeout ==
    /\ InitOpen
    /\ [][NextTimeout]_vars
    /\ WF_vars(ExecutePut(2))
    /\ WF_vars(ExecuteWait(2))
    /\ WF_vars(WaitPacketResult(2) \/ WaitPacketTimeout(2))

\* C6: every call of _execute that got past the adapter test and every call
\* of _wait_packet returns, also when the session is closed meanwhile; and a
\* call whose future was given no packet ends with Timeout.
C6_CallsReturn ==
    /\ (pc[2] \in {"execute_put", "execute_wait", "wait_result"}) ~> (pc[2] = "idle")
    /\ [][(pc[2] = "wait_result" /\ pc'[2] = "idle" /\ futures[loc[2].fut] = NoPacket) =>
             (result'[2].val = "Timeout" /\ result'[2].op = loc[2].op)]_vars

\* C6 witness: caller 2's _execute is waiting on a pending future after
\* caller 1's close has run to its end.
C6_Witness ==
    /\ pc[2] = "wait_result" /\ loc[2].op = "execute"
    /\ futures[loc[2].fut] = NoPacket
    /\ Ended(1, "exit", "ok") /\ adapter = 0 /\ adapters[1].closed

\* the query implements answered
Declared ==
    LET m == impl.cls.own[impl.method.name] IN
    m.kind \in {"func", "partial"} /\ m.f = impl.method

OnlyInherited ==
    /\ impl.cls.own[impl.method.name].kind = "none"
    /\ impl.cls.base[impl.method.name].kind = "func"
    /\ impl.cls.base[impl.method.name].f = impl.method

ProcPartial ==
    LET m == impl.cls.own[impl.method.name] IN m.kind = "partial" /\ m.proc

\* C9 as claimed: implements is true only for a method declared on the class
\* itself with _require_target equal to with_target, false for a method that
\* is only inherited, and false whenever _require_target differs from
\* with_target.
C9_Original ==
    impl.asked =>
        /\ impl.result => (Declared /\ impl.cls.require_target = impl.with_target)
        /\ OnlyInherited => ~impl.result
        /\ impl.cls.require_target # impl.with_target => ~impl.result

\* C9 as amended: implements is true only for a method declared on the class
\* itself, with _require_target equal to with_target or else with the
\* declaration a partialmethod that binds 'proc' and with_target false; it is
\* false for a method that is only inherited, and false whenever
\* _require_target differs from with_target, unless the declaration is a
\* partialmethod that binds 'proc' and with_target is false.
C9_Implements ==
    impl.asked =>
        /\ impl.result =>
              /\ Declared
              /\ \/ impl.cls.require_target = impl.with_target
                 \/ ProcPartial /\ ~impl.with_target
        /\ OnlyInherited => ~impl.result
        /\ (impl.cls.require_target # impl.with_target
              /\ ~(ProcPartial /\ ~impl.with_target)) => ~impl.result

\* C9 witness: a class that requires a target declares the method as a
\* partialmethod binding 'proc'; the query without target is answered true.
C9_Witness ==
    /\ impl.asked /\ impl.result
    /\ Declared /\ ProcPartial
    /\ impl.cls.require_target /\ ~impl.with_target

\* ------------------------------------------------------- SpecDemo and C11
\* SpecDemo: one run of the demo script on a fresh Toy; any step of the open
\* may fail, the transmit thread runs, and the toy answers a command or not.
NextDemo ==
    \/ DemoFind
    \/ DemoWith
    \/ DemoEntered
    \/ DemoFor
    \/ DemoRoll
    \/ DemoRolled
    \/ DemoExit
    \/ DemoExited
    \/ Enter(1)
    \/ Exit(1)
    \/ ExecutePut(1)
    \/ ExecuteWait(1)
    \/ WaitPacketResult(1)
    \/ WaitPacketTimeout(1)
    \/ Len(delivered) < MaxDemoPackets /\ NewPacket(1, FALSE)
    \/ \E t \in DOMAIN threads : ProcessPacket(t)

SpecDemo == Init /\ [][NextDemo]_vars

\* the drive commands of the script, in the order of the headings
Drives == [i \in 1 .. Len(Headings) |-> <<Headings[i], Speed, Duration>>]

\* every adapter created so far was closed, and the close is in the log
AllClosed ==
    /\ adapter = 0
    /\ \A a \in DOMAIN adapters :
         /\ adapters[a].closed
         /\ \E i \in DOMAIN log : log[i].ev = "close" /\ log[i].ad = a

\* C11: in the demo script the drive commands issued are a prefix of the
\* drives at headings 0, 90, 180, 270 (speed 80, duration 0.75), each handed
\* to the toy as one command in that order; a run that opened the session
\* and had no command fail issues all four; a command that fails ends the
\* sequence at that command; when the script has ended every adapter created
\* was closed; when discovery returned no toy nothing was opened or issued.
C11_Demo ==
    /\ Len(demo.cmds) <= Len(Drives)
    /\ demo.cmds = SubSeq(Drives, 1, Len(demo.cmds))
    /\ seq <= Len(demo.cmds) /\ Len(demo.cmds) <= seq + 1
    /\ \A i \in DOMAIN enq : enq[i].seq = i
    /\ (demo.pc \in {"exit", "done"} /\ demo.i > 0 /\ demo.err = "")
          => demo.cmds = Drives
    /\ (demo.i > 0 /\ demo.err # "") => Len(demo.cmds) = demo.i
    /\ (demo.pc = "done" /\ demo.toy) => AllClosed
    /\ ~demo.toy => /\ adapters = <<>> /\ log = <<>>
                    /\ calls[1] = 0 /\ demo.cmds = <<>>

\* the second drive timed out: two commands were issued, the script ended
\* and the adapter the session used is closed
C11_Witness ==
    /\ demo.pc = "done" /\ demo.toy
    /\ demo.err = "Timeout" /\ Len(demo.cmds) = 2
    /\ Len(adapters) = 1 /\ adapters[1].closed
\* ------------------------------------------------------- SpecPace and C12
\* SpecPace: on an open session both callers call _execute with payloads of
\* one, two and three chunks while the transmit thread runs.
NextPace ==
    \/ Issued < MaxPaceCalls /\ \E p \in Callers, n \in PayloadLens : ExecuteCheck(p, p, n)
    \/ \E p \in Callers : ExecutePut(p)
    \/ \E p \in Callers : ExecuteWait(p)
    \/ \E p \in Callers : WaitPacketTimeout(p)
    \/ \E t \in DOMAIN threads : ProcessPacket(t)

SpecPace == InitOpen /\ [][NextPace]_vars

\* the writes to the send channel and the pacing sleeps, oldest first
Paced == SelectSeq(log, LAMBDA e : e.ev = "sleep" \/ (e.ev = "write" /\ e.ch = "send"))

\* entry i of Paced is a write of a chunk
IsChunk(i) == Paced[i].ev = "write"

\* the payload number of the chunk written at entry i of Paced
ChunkOf(i) == SeqOf(Paced[i].data[1])

\* C12: in the transmit loop two chunk writes with nothing but sleeps between
\* them have no sleep between them when they belong to the same payload, and
\* exactly one when they belong to different payloads.
C12_Pacing ==
    \A i, j \in DOMAIN Paced :
        (i < j /\ IsChunk(i) /\ IsChunk(j) /\ \A k \in i + 1 .. j - 1 : ~IsChunk(k))
            => j - i - 1 = (IF ChunkOf(i) = ChunkOf(j) THEN 0 ELSE 1)

\* a payload of three chunks went out in three writes with no sleep between
\* them, one sleep followed, then the first chunk of the next payload
C12_Witness ==
    \E i \in DOMAIN Paced :
        /\ i + 4 \in DOMAIN Paced
        /\ IsChunk(i) /\ IsChunk(i + 1) /\ IsChunk(i + 2)
        /\ ChunkOf(i) = ChunkOf(i + 1) /\ ChunkOf(i + 1) = ChunkOf(i + 2)
        /\ ~IsChunk(i + 3)
        /\ IsChunk(i + 4) /\ ChunkOf(i + 4) # ChunkOf(i)
\* ---------------------------------------------------------------- C13
\* the writes made on adapter a, oldest first
WritesOn(a) == SelectSeq(log, LAMBDA e : e.ev = "write" /\ e.ad = a)

\* the handshake writes made on adapter a, oldest first
HandshakeOn(a) == SelectSeq(WritesOn(a), LAMBDA e : e.ch # "send")

\* C13: on every adapter an open created, the handshake writes made so far
\* are the first entries of the handshake table in its order, every write of
\* a command payload to the send channel comes after all of them, and an
\* open that returned normally has made all of them; this with another
\* thread calling _execute at any point of the open.
C13_HandshakeFirst ==
    /\ \A a \in DOMAIN adapters :
         LET w == WritesOn(a)
             hs == HandshakeOn(a)
         IN /\ Len(hs) <= Len(handshake)
            /\ \A i \in DOMAIN hs : /\ hs[i].ch = handshake[i].uuid
                                     /\ hs[i].data = handshake[i].data
            /\ \A i \in DOMAIN w :
                 w[i].ch = "send" =>
                    /\ Len(hs) = Len(handshake)
                    /\ \A j \in DOMAIN w : w[j].ch # "send" => j < i
    /\ \A p \in Callers :
         Ended(p, "enter", "ok") => Len(HandshakeOn(adapter)) = Len(handshake)

\* the open has made every handshake write and has not started the transmit
\* thread yet, and a payload another thread put on the queue meanwhile waits
C13_Witness ==
    /\ pc[1] = "enter_start" /\ adapter = 1
    /\ Len(HandshakeOn(1)) = Len(handshake)
    /\ threads[thread].st = "new"
    /\ queues[packet_queue] # <<>> /\ enq # <<>>
\* ----------------------------------------------------- SpecReopen and C14
\* SpecReopen: caller 1 closes and reopens the session (any step of the open
\* failing); caller 2 registers listeners while the first session is not
\* closed yet and waits for packets at any time; packets arrive once a
\* second adapter exists.
NextReopen ==
    \/ Issued < MaxReopenCalls /\ ExitCall(1)
    \/ Issued < MaxReopenCalls /\ EnterCheck(1)
    \/ Enter(1)
    \/ Exit(1)
    \/ /\ Issued < MaxReopenCalls /\ ~adapters[1].closed
       /\ \E k \in Keys, proc \in Procs, l \in Listeners : AddListener(2, k, proc, l)
    \/ Issued < MaxReopenCalls /\ \E k \in Keys : WaitPacketCall(2, k, FALSE)
    \/ WaitPacketResult(2)
    \/ WaitPacketTimeout(2)
    \/ /\ Len(delivered) < MaxReopenPackets /\ Len(adapters) > 1
       /\ \E k \in Keys : NewPacket(k, FALSE)
    \/ \E t \in DOMAIN threads : ProcessPacketWhile(t)
    \/ \E t \in DOMAIN threads : ProcessPacketGet(t)
    \/ \E t \in DOMAIN threads : ProcessPacketTake(t)

SpecReopen == InitOpen /\ [][NextReopen]_vars

\* this step is a step of a close by caller p, called by the caller or by
\* the except block of __enter__
Closes(p) ==
    \/ Calls(p, "exit")
    \/ pc'[p] # pc[p] /\ ( \/ pc'[p] = "exit_none"
                           \/ pc[p] \in {"exit_none", "exit_alive", "exit_put",
                                         "exit_join", "exit_joined", "exit_queue"} )

\* a step of a close by p leaves the waiters and the listeners alone, and
\* its last step installs a new, empty outbound queue
ClosePreserves(p) ==
    Closes(p) =>
       /\ waiting' = waiting /\ futures' = futures
       /\ listeners' = listeners
       /\ (pc[p] = "exit_queue" =>
             /\ packet_queue' \notin DOMAIN queues
             /\ queues'[packet_queue'] = <<>>)

\* a dispatch starts a thread for every listener registered under the id
DispatchInvokes ==
    Dispatches =>
       \A l \in Listeners :
          listeners[Dispatched.id][l] # Absent =>
             \E i \in DOMAIN Started :
                /\ Started[i].l = l /\ Started[i].pkt = Dispatched
                /\ Started[i].proc = listeners[Dispatched.id][l]

\* C14: no step of a close changes the waiters queued per key, their futures
\* or the listeners registered per event id; the last step of a close makes
\* a new, empty queue the outbound queue; and a packet dispatched after the
\* reopen starts a listener thread for every listener registered under its
\* id, the ones registered before the close included.
C14_ClosePreserves ==
    [][(\A p \in Callers : ClosePreserves(p)) /\ DispatchInvokes]_vars

\* the first session was closed and a second one opened; a packet that came
\* in on the second session started a thread for a listener that was
\* registered during the first
C14_Witness ==
    /\ adapters[1].closed /\ adapter = 2 /\ Ended(1, "enter", "ok")
    /\ delivered # <<>>
    /\ \E i \in DOMAIN workers :
         /\ workers[i].pkt = delivered[1]
         /\ listeners[delivered[1].id][workers[i].l] = workers[i].proc
    /\ Ended(2, "add", "ok")
\* ---------------------------------------------------------------- C15
\* C15: once a call of _execute or _wait_packet has failed with Timeout, the
\* future it queued is no longer in the queue of waiters of its key.
C15_TimedOutDiscarded ==
    \A p \in Callers :
        (pc[p] = "idle" /\ result[p].val = "Timeout" /\ loc[p].fut # 0)
            => ~Queued(loc[p].key, loc[p].fut)
\* ---------------------------------------------------------------- C16
\* C16: every close a caller made has returned without an error, the close
\* of a session that is not open included, and has left no adapter
\* reference, no running transmit thread and an empty outbound queue.
C16_CloseIdempotent ==
    \A p \in Callers :
        (pc[p] = "idle" /\ loc[p].op = "exit")
            => /\ result[p].val = "ok"
               /\ adapter = 0
               /\ \A t \in DOMAIN threads : threads[t].st # "alive"
\* ------------------------------------------------------ SpecClose and C17
\* SpecClose: caller 1 closes the open session while caller 2 queues
\* payloads of one, two and three chunks and the transmit thread runs.  The
\* closing thread and the transmit thread are scheduled: a step either can
\* take is taken (an adapter write returns or raises, get() returns once
\* the queue holds an item).
NextClose ==
    \/ Issued < MaxCloseCalls /\ ExitCall(1)
    \/ Exit(1)
    \/ Issued < MaxCloseCalls /\ \E n \in PayloadLens : ExecuteCheck(2, 1, n)
    \/ ExecutePut(2)
    \/ ExecuteWait(2)
    \/ WaitPacketTimeout(2)
    \/ \E t \in DOMAIN threads : ProcessPacket(t)

SpecClose ==
    /\ InitOpen
    /\ [][NextClose]_vars
    /\ WF_vars(Exit(1))
    /\ WF_vars(\E t \in DOMAIN threads : ProcessPacket(t))

\* C17: a close of the open session that has closed the adapter (line 68)
\* goes on to return without an error, and when it has returned no transmit
\* thread is running, wherever the transmit thread was and whatever was
\* queued.
C17_CloseTerminates ==
    (pc[1] = "exit_none") ~>
        (Ended(1, "exit", "ok") /\ \A t \in DOMAIN threads : threads[t].st = "dead")

\* the close has returned, and when it was made the transmit thread was in
\* the middle of a payload: the thread died holding the unwritten rest,
\* with another payload still on the queue it was reading
C17_Witness ==
    /\ Ended(1, "exit", "ok")
    /\ threads[1].st = "dead" /\ threads[1].payload # <<>>
    /\ \E i \in DOMAIN queues[1] : queues[1][i] # None
\* ------------------------------------------------------- SpecRace and C18
\* SpecRace: both callers open and close the same Toy, in any order and
\* interleaved at every access to one of its attributes, any step of an
\* open failing; the transmit threads run (nothing is queued for them but
\* the stop sentinel).
NextRace ==
    \/ Issued < MaxRaceCalls /\ \E p \in Callers : EnterCheck(p)
    \/ Issued < MaxRaceCalls /\ \E p \in Callers : ExitCall(p)
    \/ \E p \in Callers : Enter(p)
    \/ \E p \in Callers : Exit(p)
    \/ \E t \in DOMAIN threads : ProcessPacketWhile(t)
    \/ \E t \in DOMAIN threads : ProcessPacketGet(t)
    \/ \E t \in DOMAIN threads : ProcessPacketTake(t)

SpecRace == Init /\ [][NextRace]_vars

\* the transmit threads that are running
Running == {t \in DOMAIN threads : threads[t].st = "alive"}

\* C18: whatever the interleaving of the opens and closes of the callers,
\* at most one transmit thread is running.
C18_OneTransmitThread == Cardinality(Running) <= 1
\* ---------------------------------------------------- SpecRespond and C19
\* the toy has received the whole command of caller p's _execute and has not
\* answered it yet
Unanswered(p) ==
    /\ loc[p].op = "execute"
    /\ Len(Concat(WritesOf(loc[p].pkt.seq))) = loc[p].pkt.len
    /\ \A i \in DOMAIN delivered : delivered[i].id # loc[p].pkt.id

\* SpecRespond: on an open session each caller calls _execute once, under
\* its own packet id; the transmit thread runs, and the toy answers a
\* command once, after the last chunk of it was written.
NextRespond ==
    \/ /\ Issued < MaxRespondCalls
       /\ \E p \in Callers, n \in PayloadLens :
            loc[p].op # "execute" /\ ExecuteCheck(p, p, n)
    \/ \E p \in Callers : ExecutePut(p)
    \/ \E p \in Callers : ExecuteWait(p)
    \/ \E p \in Callers : WaitPacketResult(p)
    \/ \E p \in Callers : WaitPacketTimeout(p)
    \/ \E p \in Callers : Unanswered(p) /\ NewPacket(p, FALSE)
    \/ \E t \in DOMAIN threads : ProcessPacket(t)

SpecRespond == InitOpen /\ [][NextRespond]_vars

\* caller p is in _execute, has put its payload on the queue (line 88) and
\* has not been given a packet yet
Pending(p) ==
    /\ loc[p].op = "execute"
    /\ \/ pc[p] = "execute_wait"
       \/ pc[p] = "wait_result" /\ futures[loc[p].fut] = NoPacket

\* C19: a packet dispatched while an _execute call with the packet's id has
\* put its payload on the queue and has not been given a packet is given to
\* that call: the call has a future and the dispatch sets it.
C19_NoLostResponse ==
    [][\A p \in Callers :
          (Dispatches /\ Pending(p) /\ Dispatched.id = loc[p].pkt.id)
             => (pc[p] = "wait_result" /\ futures'[loc[p].fut] = Dispatched)]_vars
\* ---------------------------------------------------------------- C20
\* C20: the transmit thread makes no write on an adapter after that adapter
\* was closed, and never attempts a write through the cleared reference.
C20_NoUseAfterClose ==
    /\ \A i, j \in DOMAIN log :
         (i < j /\ log[i].ev = "close" /\ log[j].ev = "write")
            => log[j].ad # log[i].ad
    /\ \A t \in DOMAIN threads : threads[t].err # "AttributeError"
====
